---- MODULE Spec2Model ----
(***************************************************************************)
(* A model of main.py: the WebSocket client of a dartboard controller.     *)
(*                                                                         *)
(* JSON objects are records whose fields are options: <<>> is an absent    *)
(* key, <<v>> a key with value v.  A Python object is the record of its    *)
(* instance attributes, again as options; attribute lookup falls back to   *)
(* the attributes of its class.  An exception is a tuple of strings whose  *)
(* first element is the exception's type.  A printed line is the tuple of  *)
(* the arguments of print.                                                 *)
(***************************************************************************)
EXTENDS Integers, Sequences, FiniteSets, TLC

VARIABLES
    loop,          \* the event loop: "waiting", "callback", "crashed", "aborted"
    conn,          \* the socket: "closed" or "open"
    MessageClass,  \* the attributes of class Message
    last,          \* the callback that ran last ("" while the loop waits)
    frame,         \* <<f>>: the inbound frame on_message was called with
    msg,           \* <<m>>: the Message on_message constructed
    printed,       \* the lines printed since the loop last waited
    raised,        \* <<>> or the exception the callback that ran last raised
    hadError,      \* an earlier inbound frame failed to decode
    hadThrows,     \* an earlier Message held a non-empty throws list
    call,          \* the control function a caller is in ("" when in none)
    answers,       \* the redirects the transport has answered the call with
    final,         \* <<>> while the call waits, or <<s>>: its final answer
    sent,          \* the HTTP requests the call has issued
    callRaised     \* <<>> or the exception the call ends with

\* The state of the event loop and of the handling of frames.
loopVars == <<loop, conn, MessageClass, last, frame, msg, printed, raised,
              hadError, hadThrows>>

\* The state of a caller of the control functions.
callVars == <<call, answers, final, sent, callRaised>>

vars == <<loopVars, callVars>>

----------------------------------------------------------------------------
(* Bounds of the model. *)

MaxThrows == 2

MaxOtherThrows == 1

MaxRedirects == 2

----------------------------------------------------------------------------
(* Options and Python's built-in exceptions. *)

None == <<>>

Some(v) == <<v>>

Has(o) == o # <<>>

Val(o) == o[1]

KeyError(key) == <<"KeyError", key>>

ValueError(enum, value) == <<"ValueError", enum, value>>

AttributeError(cls, attr) == <<"AttributeError", cls, attr>>

IndexError == <<"IndexError", "list index out of range">>

----------------------------------------------------------------------------
(* Configuration. *)

API_URL == "localhost"

API_PORT == "3180"

----------------------------------------------------------------------------
(* The enumerations: each member as <<str(member), value>>. *)

EventTypeMembers ==
    { <<"EventType.STARTING", "Starting">>,
      <<"EventType.STARTED", "Started">>,
      <<"EventType.STOPPING", "Stopping">>,
      <<"EventType.STOPPED", "Stopped">>,
      <<"EventType.THROW_DETECTED", "Throw detected">>,
      <<"EventType.TAKEOUT_STARTED", "Takeout started">>,
      <<"EventType.TAKEOUT_FINISHED", "Takeout finished">>,
      <<"EventType.MANUAL_RESET", "Manual reset">>,
      <<"EventType.CALIBRATION_STARTED", "Calibration started">>,
      <<"EventType.CALIBRATION_FINISHED", "Calibration finished">>,
      <<"EventType.CALIBRATION_FAILED", "Calibration failed">> }

StatusTypeMembers ==
    { <<"StatusType.STARTING", "Starting">>,
      <<"StatusType.STOPPING", "Stopping">>,
      <<"StatusType.STOPPED", "Stopped">>,
      <<"StatusType.THROW", "Throw">>,
      <<"StatusType.TAKEOUT", "Takeout">>,
      <<"StatusType.TAKEOUT_IN_PROGRESS", "Takeout in progress">>,
      <<"StatusType.CALIBRATING", "Calibrating">> }

SegmentBedMembers ==
    { <<"SegmentBed.SINGLE_INNER", "SingleInner">>,
      <<"SegmentBed.SINGLE_OUTER", "SingleOuter">>,
      <<"SegmentBed.DOUBLE", "Double">>,
      <<"SegmentBed.TRIPLE", "Triple">>,
      <<"SegmentBed.OUTSIDE", "Outside">> }

\* Mutant of EnumCall: a value that is no member's falls back to a member.
EnumCall_default(enum, members, value) ==
    IF \E m \in members : m[2] = value
    THEN [exc |-> None, val |-> (CHOOSE m \in members : m[2] = value)[1]]
    ELSE [exc |-> None, val |-> (CHOOSE m \in members : TRUE)[1]]

\* Enum(value): the member with that value, or ValueError.
EnumCall(enum, members, value) ==
    IF \E m \in members : m[2] = value
    THEN [exc |-> None, val |-> (CHOOSE m \in members : m[2] = value)[1]]
    ELSE [exc |-> ValueError(enum, value), val |-> ""]

EventType(value) == EnumCall("EventType", EventTypeMembers, value)

StatusType(value) == EnumCall("StatusType", StatusTypeMembers, value)

SegmentBed(value) == EnumCall("SegmentBed", SegmentBedMembers, value)

----------------------------------------------------------------------------
(* Segment, Throw and Message. *)

\* Segment(bed, multiplier, number, name)
Segment(bed, multiplier, number, name) ==
    [bed |-> bed, multiplier |-> multiplier, number |-> number, name |-> name]

\* Throw(segment)
Throw(segment) == [segment |-> segment]

\* The first exception that evaluating
\* Throw(Segment(SegmentBed(t["segment"]["bed"]), t["segment"]["multiplier"],
\*               t["segment"]["number"], t["segment"]["name"]))
\* raises, its arguments taken left to right, or None.
ThrowExc(t) ==
    IF ~Has(t.segment) THEN KeyError("segment")
    ELSE LET s == Val(t.segment) IN
         IF ~Has(s.bed) THEN KeyError("bed")
         ELSE IF Has(SegmentBed(Val(s.bed)).exc) THEN SegmentBed(Val(s.bed)).exc
         ELSE IF ~Has(s.multiplier) THEN KeyError("multiplier")
         ELSE IF ~Has(s.number) THEN KeyError("number")
         ELSE IF ~Has(s.name) THEN KeyError("name")
         ELSE None

ThrowOf(t) ==
    LET s == Val(t.segment) IN
    Throw(Segment(SegmentBed(Val(s.bed)).val, Val(s.multiplier),
                  Val(s.number), Val(s.name)))

\* [Throw(...) for t in data["throws"]]: the comprehension stops at the first
\* entry that raises.
ThrowsOf(ts) ==
    LET bad == {i \in 1..Len(ts) : Has(ThrowExc(ts[i]))} IN
    IF bad # {}
    THEN [exc |-> ThrowExc(ts[CHOOSE i \in bad : \A j \in bad : i <= j]),
          val |-> <<>>]
    ELSE [exc |-> None, val |-> [i \in 1..Len(ts) |-> ThrowOf(ts[i])]]

\* The attributes the class statement of Message sets: running, connected and
\* num_throws have values, status, event and throws are annotations only.
MessageClassInit ==
    [connected |-> Some(FALSE), running |-> Some(FALSE), status |-> None,
     event |-> None, num_throws |-> Some(0), throws |-> None]

NoAttributes ==
    [connected |-> None, running |-> None, status |-> None,
     event |-> None, num_throws |-> None, throws |-> None]

\* Mutant of Message__init__: the throws list is stored on the class
\* (Message.throws = ...), not on the instance.
Message__init___shared(cls, data) ==
    LET fail(e) == [exc |-> e, self |-> NoAttributes, cls |-> cls] IN
    IF ~Has(data.connected) THEN fail(KeyError("connected"))
    ELSE IF ~Has(data.running) THEN fail(KeyError("running"))
    ELSE IF ~Has(data.status) THEN fail(KeyError("status"))
    ELSE IF Has(StatusType(Val(data.status)).exc)
         THEN fail(StatusType(Val(data.status)).exc)
    ELSE IF ~Has(data.event) THEN fail(KeyError("event"))
    ELSE IF Has(EventType(Val(data.event)).exc)
         THEN fail(EventType(Val(data.event)).exc)
    ELSE IF ~Has(data.numThrows) THEN fail(KeyError("numThrows"))
    ELSE LET self == [connected |-> data.connected,
                      running |-> data.running,
                      status |-> Some(StatusType(Val(data.status)).val),
                      event |-> Some(EventType(Val(data.event)).val),
                      num_throws |-> data.numThrows,
                      throws |-> None]
         IN IF ~Has(data.throws) THEN [exc |-> None, self |-> self, cls |-> cls]
            ELSE IF Has(ThrowsOf(Val(data.throws)).exc)
                 THEN fail(ThrowsOf(Val(data.throws)).exc)
            ELSE [exc |-> None,
                  self |-> self,
                  cls |-> [cls EXCEPT
                             !.throws = Some(ThrowsOf(Val(data.throws)).val)]]

\* Mutant of Message__init__: a missing numThrows defaults to 0
\* (data.get("numThrows", 0)).
Message__init___lenient(cls, data) ==
    LET fail(e) == [exc |-> e, self |-> NoAttributes, cls |-> cls] IN
    IF ~Has(data.connected) THEN fail(KeyError("connected"))
    ELSE IF ~Has(data.running) THEN fail(KeyError("running"))
    ELSE IF ~Has(data.status) THEN fail(KeyError("status"))
    ELSE IF Has(StatusType(Val(data.status)).exc)
         THEN fail(StatusType(Val(data.status)).exc)
    ELSE IF ~Has(data.event) THEN fail(KeyError("event"))
    ELSE IF Has(EventType(Val(data.event)).exc)
         THEN fail(EventType(Val(data.event)).exc)
    ELSE LET self == [connected |-> data.connected,
                      running |-> data.running,
                      status |-> Some(StatusType(Val(data.status)).val),
                      event |-> Some(EventType(Val(data.event)).val),
                      num_throws |-> IF Has(data.numThrows)
                                    THEN data.numThrows ELSE Some(0),
                      throws |-> None]
         IN IF ~Has(data.throws) THEN [exc |-> None, self |-> self, cls |-> cls]
            ELSE IF Has(ThrowsOf(Val(data.throws)).exc)
                 THEN fail(ThrowsOf(Val(data.throws)).exc)
            ELSE [exc |-> None,
                  self |-> [self EXCEPT
                              !.throws = Some(ThrowsOf(Val(data.throws)).val)],
                  cls |-> cls]

\* Message.__init__(self, data): exc is the exception it raises (None when it
\* returns), self the instance attributes it has set, cls the attributes of
\* the class afterwards.
Message__init__(cls, data) ==
    LET fail(e) == [exc |-> e, self |-> NoAttributes, cls |-> cls] IN
    IF ~Has(data.connected) THEN fail(KeyError("connected"))
    ELSE IF ~Has(data.running) THEN fail(KeyError("running"))
    ELSE IF ~Has(data.status) THEN fail(KeyError("status"))
    ELSE IF Has(StatusType(Val(data.status)).exc)
         THEN fail(StatusType(Val(data.status)).exc)
    ELSE IF ~Has(data.event) THEN fail(KeyError("event"))
    ELSE IF Has(EventType(Val(data.event)).exc)
         THEN fail(EventType(Val(data.event)).exc)
    ELSE IF ~Has(data.numThrows) THEN fail(KeyError("numThrows"))
    ELSE LET self == [connected |-> data.connected,
                      running |-> data.running,
                      status |-> Some(StatusType(Val(data.status)).val),
                      event |-> Some(EventType(Val(data.event)).val),
                      num_throws |-> data.numThrows,
                      throws |-> None]
         IN IF ~Has(data.throws) THEN [exc |-> None, self |-> self, cls |-> cls]
            ELSE IF Has(ThrowsOf(Val(data.throws)).exc)
                 THEN fail(ThrowsOf(Val(data.throws)).exc)
            ELSE [exc |-> None,
                  self |-> [self EXCEPT
                              !.throws = Some(ThrowsOf(Val(data.throws)).val)],
                  cls |-> cls]

\* obj.attr: the instance's attribute, else the class's, else AttributeError.
GetAttr(cls, self, attr) ==
    IF Has(self[attr]) THEN [exc |-> None, val |-> Val(self[attr])]
    ELSE IF Has(cls[attr]) THEN [exc |-> None, val |-> Val(cls[attr])]
    ELSE [exc |-> AttributeError("Message", attr), val |-> None]

\* list[i]: Python's subscript of a list, with a negative i counted from the
\* end; xs is 1-based here, i is Python's 0-based index.
GetItem(xs, i) ==
    LET k == IF i < 0 THEN i + Len(xs) ELSE i IN
    IF k < 0 \/ k >= Len(xs)
    THEN [exc |-> IndexError, val |-> None]
    ELSE [exc |-> None, val |-> Some(xs[k + 1])]

----------------------------------------------------------------------------
(* The handlers. Each returns the lines it prints and the exception it      *)
(* raises (None when it returns normally).                                  *)

\* Mutant of Dispatch: the first entry of throws is scored, not the last.
Dispatch_first(cls, self) ==
    LET event == GetAttr(cls, self, "event")
        status == GetAttr(cls, self, "status")
        num_throws == GetAttr(cls, self, "num_throws")
        throws == GetAttr(cls, self, "throws")
        item == GetItem(throws.val, 0)
        segment == Val(item.val).segment
        score == segment.multiplier * segment.number
    IN  IF Has(event.exc) THEN [printed |-> <<>>, raised |-> event.exc]
        ELSE IF event.val = "EventType.THROW_DETECTED"
        THEN IF Has(throws.exc) THEN [printed |-> <<>>, raised |-> throws.exc]
             ELSE IF Has(item.exc) THEN [printed |-> <<>>, raised |-> item.exc]
             ELSE [printed |-> << <<event.val, status.val, num_throws.val,
                                    segment.name, score>> >>,
                   raised |-> None]
        ELSE IF Has(status.exc) THEN [printed |-> <<>>, raised |-> status.exc]
        ELSE [printed |-> << <<event.val, status.val>> >>, raised |-> None]

\* Mutant of Dispatch: msg.throws is read before the branch on the event.
Dispatch_eager(cls, self) ==
    LET event == GetAttr(cls, self, "event")
        status == GetAttr(cls, self, "status")
        num_throws == GetAttr(cls, self, "num_throws")
        throws == GetAttr(cls, self, "throws")
        item == GetItem(throws.val, Len(throws.val) - 1)
        segment == Val(item.val).segment
        score == segment.multiplier * segment.number
    IN  IF Has(event.exc) THEN [printed |-> <<>>, raised |-> event.exc]
        ELSE IF event.val = "EventType.THROW_DETECTED"
        THEN IF Has(throws.exc) THEN [printed |-> <<>>, raised |-> throws.exc]
             ELSE IF Has(item.exc) THEN [printed |-> <<>>, raised |-> item.exc]
             ELSE [printed |-> << <<event.val, status.val, num_throws.val,
                                    segment.name, score>> >>,
                   raised |-> None]
        ELSE IF Has(throws.exc) THEN [printed |-> <<>>, raised |-> throws.exc]
        ELSE IF Has(status.exc) THEN [printed |-> <<>>, raised |-> status.exc]
        ELSE [printed |-> << <<event.val, status.val>> >>, raised |-> None]

\* Mutant of Dispatch: an empty throws list falls through to the other branch
\* (if msg.event == EventType.THROW_DETECTED and msg.throws).
Dispatch_guarded(cls, self) ==
    LET event == GetAttr(cls, self, "event")
        status == GetAttr(cls, self, "status")
        num_throws == GetAttr(cls, self, "num_throws")
        throws == GetAttr(cls, self, "throws")
        item == GetItem(throws.val, Len(throws.val) - 1)
        segment == Val(item.val).segment
        score == segment.multiplier * segment.number
    IN  IF Has(event.exc) THEN [printed |-> <<>>, raised |-> event.exc]
        ELSE IF event.val = "EventType.THROW_DETECTED" /\ Has(throws.exc)
        THEN [printed |-> <<>>, raised |-> throws.exc]
        ELSE IF event.val = "EventType.THROW_DETECTED" /\ throws.val # <<>>
        THEN IF Has(throws.exc) THEN [printed |-> <<>>, raised |-> throws.exc]
             ELSE IF Has(item.exc) THEN [printed |-> <<>>, raised |-> item.exc]
             ELSE [printed |-> << <<event.val, status.val, num_throws.val,
                                    segment.name, score>> >>,
                   raised |-> None]
        ELSE IF Has(status.exc) THEN [printed |-> <<>>, raised |-> status.exc]
        ELSE [printed |-> << <<event.val, status.val>> >>, raised |-> None]

\* Lines 123-128 of on_message: the branch on msg.event.
Dispatch(cls, self) ==
    LET event == GetAttr(cls, self, "event")
        status == GetAttr(cls, self, "status")
        num_throws == GetAttr(cls, self, "num_throws")
        throws == GetAttr(cls, self, "throws")
        item == GetItem(throws.val, Len(throws.val) - 1)
        segment == Val(item.val).segment
        score == segment.multiplier * segment.number
    IN  IF Has(event.exc) THEN [printed |-> <<>>, raised |-> event.exc]
        ELSE IF event.val = "EventType.THROW_DETECTED"
        THEN IF Has(throws.exc) THEN [printed |-> <<>>, raised |-> throws.exc]
             ELSE IF Has(item.exc) THEN [printed |-> <<>>, raised |-> item.exc]
             ELSE [printed |-> << <<event.val, status.val, num_throws.val,
                                    segment.name, score>> >>,
                   raised |-> None]
        ELSE IF Has(status.exc) THEN [printed |-> <<>>, raised |-> status.exc]
        ELSE [printed |-> << <<event.val, status.val>> >>, raised |-> None]

\* Mutant of on_message: the Message is built before the type is looked at.
on_message_unfiltered(cls, message) ==
    LET ret(p, e, m, c) == [printed |-> p, raised |-> e, msg |-> m, cls |-> c]
    IN  IF ~Has(message.data) THEN ret(<<>>, KeyError("data"), None, cls)
        ELSE LET init == Message__init__(cls, Val(message.data)) IN
             IF Has(init.exc) THEN ret(<<>>, init.exc, None, init.cls)
             ELSE IF ~Has(message.type)
                  THEN ret(<<>>, KeyError("type"), None, init.cls)
             ELSE IF Val(message.type) # "state"
                  THEN ret(<<>>, None, None, init.cls)
             ELSE LET d == Dispatch(init.cls, init.self) IN
                  ret(d.printed, d.raised, Some(init.self), init.cls)

\* on_message(ws, message), message being the object json.loads returns.
on_message(cls, message) ==
    LET ret(p, e, m, c) == [printed |-> p, raised |-> e, msg |-> m, cls |-> c]
    IN  IF ~Has(message.type) THEN ret(<<>>, KeyError("type"), None, cls)
        ELSE IF Val(message.type) # "state" THEN ret(<<>>, None, None, cls)
        ELSE IF ~Has(message.data) THEN ret(<<>>, KeyError("data"), None, cls)
        ELSE LET init == Message__init__(cls, Val(message.data)) IN
             IF Has(init.exc) THEN ret(<<>>, init.exc, None, init.cls)
             ELSE LET d == Dispatch(init.cls, init.self) IN
                  ret(d.printed, d.raised, Some(init.self), init.cls)

\* Mutant of on_error: the error is raised again after it is printed.
on_error_reraise(error) ==
    [printed |-> << <<"error:">> \o error >>, raised |-> error]

\* on_error(ws, error)
on_error(error) ==
    [printed |-> << <<"error:">> \o error >>, raised |-> None]

\* on_close(ws, close_status_code, close_msg)
on_close == [printed |-> << <<"### closed ###">> >>, raised |-> None]

\* on_open(ws)
on_open == [printed |-> << <<"### opened ###">> >>, raised |-> None]

\* The status codes requests treats as a redirect when the response names a
\* Location.
RedirectStatus == {"301", "302", "303", "307", "308"}

\* Where the server sends a request for path.
Moved(path) ==
    CASE path = "/api/start" -> "/moved/api/start"
      [] path = "/api/stop" -> "/moved/api/stop"
      [] path = "/api/reset" -> "/moved/api/reset"

\* How the answers to a call end: a response of a final status, a failure to
\* connect, or no answer at all.
FinalResults == {"200", "500", "ConnectionError", "NoResponse"}

\* What the transport answers to a control request: at most MaxRedirects
\* redirects, then a final result.
TransportResults ==
    [redirects : UNION { [1..k -> RedirectStatus] : k \in 0..MaxRedirects },
     final : FinalResults]

\* The method requests gives the request that follows a redirect: 302 and 303
\* turn it into GET, 301 turns POST into GET, 307 and 308 keep it.
RebuildMethod(method, status) ==
    IF status \in {"302", "303"} THEN "GET"
    ELSE IF status = "301" /\ method = "POST" THEN "GET"
    ELSE method

RECURSIVE MethodAfter(_, _, _)
\* The method of the request sent after the first k redirects.
MethodAfter(method, redirects, k) ==
    IF k = 0 THEN method
    ELSE RebuildMethod(MethodAfter(method, redirects, k - 1), redirects[k])

\* requests.put / requests.post with the default allow_redirects and no
\* timeout: the request goes on the wire and every redirect is followed by
\* another request; a failure to connect is raised and names the request that
\* failed, the last one; a response of any final status is returned and
\* dropped, and without a response the call blocks.
Request(method, path, result) ==
    LET n == Len(result.redirects) + 1
        pathOf(k) == IF k = 1 THEN path ELSE Moved(path)
    IN  [sent |-> [k \in 1..n |->
                     <<MethodAfter(method, result.redirects, k - 1),
                       API_URL, API_PORT, pathOf(k)>>],
         raised |-> IF result.final = "ConnectionError"
                    THEN <<"ConnectionError", pathOf(n)>> ELSE None,
         blocks |-> result.final = "NoResponse"]

\* start_board()
start_board(result) == Request("PUT", "/api/start", result)

\* stop_board()
stop_board(result) == Request("PUT", "/api/stop", result)

\* reset_board()
reset_board(result) == Request("POST", "/api/reset", result)

\* The function of that name.
Called(name, result) ==
    CASE name = "start_board" -> start_board(result)
      [] name = "stop_board" -> stop_board(result)
      [] name = "reset_board" -> reset_board(result)

----------------------------------------------------------------------------
(* The inbound frames the transport may deliver. *)

T20 == [bed |-> Some("Triple"), multiplier |-> Some(3), number |-> Some(20),
        name |-> Some("T20")]

MISS == [bed |-> Some("Outside"), multiplier |-> Some(0), number |-> Some(0),
         name |-> Some("MISS")]

GoodEntries == { [segment |-> Some(T20)], [segment |-> Some(MISS)] }

\* Entries that do not decode: no segment, a segment without one of its
\* fields, a bed outside SegmentBed.
BadEntries ==
    { [segment |-> None],
      [segment |-> Some([T20 EXCEPT !.bed = None])],
      [segment |-> Some([T20 EXCEPT !.bed = Some("Bull")])],
      [segment |-> Some([T20 EXCEPT !.multiplier = None])],
      [segment |-> Some([T20 EXCEPT !.number = None])],
      [segment |-> Some([T20 EXCEPT !.name = None])] }

Entries == GoodEntries \cup BadEntries

\* The lists of at most n entries.
ThrowsLists(n) == UNION { [1..k -> Entries] : k \in 0..n }

ConnectedField == {None, Some(TRUE), Some(FALSE)}

RunningField == {None, Some(TRUE)}

\* "Started" is an event and no status, "Throw" a status and no event.
StatusField == {None, Some("Throw"), Some("Started")}

EventField == {None, Some("Throw detected"), Some("Started"), Some("Throw")}

NumThrowsField == {None, Some(0), Some(1), Some(MaxThrows)}

\* The data objects whose throws, when present, has at most n entries.
DataObjects(n) ==
    [connected : ConnectedField, running : RunningField, status : StatusField,
     event : EventField, numThrows : NumThrowsField,
     throws : {None} \cup {Some(ts) : ts \in ThrowsLists(n)}]

DataField(n) == {None} \cup {Some(d) : d \in DataObjects(n)}

StateFrames == [type : {Some("state")}, data : DataField(MaxThrows)]

\* Frames of another type, and frames without a type.
OtherFrames == [type : {None, Some("ping")}, data : DataField(MaxOtherThrows)]

Frames == StateFrames \cup OtherFrames

\* A state frame that carries the given event and throws.
StateFrame(event, throws) ==
    [type |-> Some("state"),
     data |-> Some([connected |-> Some(TRUE), running |-> Some(TRUE),
                    status |-> Some("Throw"), event |-> Some(event),
                    numThrows |-> Some(1), throws |-> throws])]

\* The frames delivered while control functions are called: a throw, an
\* event without throws, a frame that fails to decode and one of another
\* type.
RacingFrames ==
    { StateFrame("Throw detected", Some(<< [segment |-> Some(T20)] >>)),
      StateFrame("Started", None),
      [type |-> Some("state"), data |-> None],
      [type |-> Some("ping"), data |-> None] }

----------------------------------------------------------------------------
(* The program. *)

Init ==
    /\ loop = "waiting"
    /\ conn = "closed"
    /\ MessageClass = MessageClassInit
    /\ last = ""
    /\ frame = None
    /\ msg = None
    /\ printed = <<>>
    /\ raised = None
    /\ hadError = FALSE
    /\ hadThrows = FALSE
    /\ call = ""
    /\ answers = <<>>
    /\ final = None
    /\ sent = <<>>
    /\ callRaised = None

\* The transport calls a handler; an exception the handler raises is handed
\* to on_error, and one that on_error raises leaves the loop.
Callback(name, fr, r, c) ==
    LET e == IF Has(r.raised) THEN on_error(r.raised)
             ELSE [printed |-> <<>>, raised |-> None]
    IN  /\ loop = "waiting"
        /\ loop' = IF Has(e.raised) THEN "crashed" ELSE "callback"
        /\ conn' = c
        /\ last' = name
        /\ frame' = fr
        /\ printed' = r.printed \o e.printed
        /\ raised' = r.raised
        /\ UNCHANGED <<hadError, hadThrows, callVars>>

\* The socket is connected, at startup or 5 seconds after it closed.
OnOpen ==
    /\ conn = "closed"
    /\ Callback("on_open", None, on_open, "open")
    /\ UNCHANGED <<MessageClass, msg>>

OnClose ==
    /\ conn = "open"
    /\ Callback("on_close", None, on_close, "closed")
    /\ UNCHANGED <<MessageClass, msg>>

\* A text frame arrives.
OnMessage(message) ==
    /\ conn = "open"
    /\ LET r == on_message(MessageClass, message) IN
       /\ Callback("on_message", Some(message), r, conn)
       /\ MessageClass' = r.cls
       /\ msg' = r.msg

\* The transport delivers any frame, one at a time, while the loop waits.
Receive ==
    /\ loop = "waiting"
    /\ conn = "open"
    /\ \E message \in Frames : OnMessage(message)

\* The same, of the frames delivered while control functions are called.
ReceiveRacing ==
    /\ loop = "waiting"
    /\ conn = "open"
    /\ \E message \in RacingFrames : OnMessage(message)

\* The socket reports an error.
OnError(error) ==
    /\ loop = "waiting"
    /\ loop' = IF Has(on_error(error).raised) THEN "crashed" ELSE "callback"
    /\ last' = "on_error"
    /\ printed' = on_error(error).printed
    /\ raised' = None
    /\ UNCHANGED <<conn, MessageClass, frame, msg, hadError, hadThrows,
                   callVars>>

SocketError == OnError(<<"WebSocketConnectionClosedException">>)

\* The callback returns; its arguments and locals are gone.
Return ==
    /\ loop = "callback"
    /\ loop' = "waiting"
    /\ last' = ""
    /\ frame' = None
    /\ msg' = None
    /\ printed' = <<>>
    /\ raised' = None
    /\ hadError' = (hadError \/ (/\ last = "on_message"
                                  /\ Has(raised)
                                  /\ raised[1] \in {"KeyError", "ValueError"}))
    /\ hadThrows' = (hadThrows \/ (Has(msg) /\ Has(Val(msg).throws)
                                     /\ Val(Val(msg).throws) # <<>>))
    /\ UNCHANGED <<conn, MessageClass, callVars>>

\* Signal 2: rel.abort ends the loop.
Abort ==
    /\ loop = "waiting"
    /\ loop' = "aborted"
    /\ UNCHANGED <<conn, MessageClass, last, frame, msg, printed, raised,
                   hadError, hadThrows, callVars>>

\* The call as far as it has got when the transport has answered with the
\* redirects and nothing since: it waits, as a call does that is never
\* answered.
Waiting(name, redirects) ==
    Called(name, [redirects |-> redirects, final |-> "NoResponse"])

\* A caller on a thread of its own calls a control function: the function
\* issues its request and waits for the answer, with no timeout.
Control(name) ==
    /\ call = ""
    /\ call' = name
    /\ answers' = <<>>
    /\ final' = None
    /\ sent' = Waiting(name, <<>>).sent
    /\ callRaised' = None
    /\ UNCHANGED loopVars

StartBoard ==
    /\ call = ""
    /\ Control("start_board")

StopBoard ==
    /\ call = ""
    /\ Control("stop_board")

ResetBoard ==
    /\ call = ""
    /\ Control("reset_board")

\* The transport answers the waiting call with a redirect: the call issues
\* the next request and waits again.
Redirected ==
    /\ call # ""
    /\ final = None
    /\ Len(answers) < MaxRedirects
    /\ \E status \in RedirectStatus :
          /\ answers' = Append(answers, status)
          /\ sent' = Waiting(call, Append(answers, status)).sent
    /\ UNCHANGED <<call, final, callRaised, loopVars>>

\* The transport answers the waiting call for good, with a response or a
\* failure to connect: the call returns or raises.
Answered ==
    /\ call # ""
    /\ final = None
    /\ \E status \in FinalResults \ {"NoResponse"} :
          LET r == Called(call, [redirects |-> answers, final |-> status])
          IN  /\ final' = Some(status)
              /\ sent' = r.sent
              /\ callRaised' = r.raised
    /\ UNCHANGED <<call, answers, loopVars>>

\* The caller has the call's outcome and is in no control function.
ControlReturn ==
    /\ call # ""
    /\ Has(final)
    /\ call' = ""
    /\ answers' = <<>>
    /\ final' = None
    /\ sent' = <<>>
    /\ callRaised' = None
    /\ UNCHANGED loopVars

\* The program as __main__ runs it: nothing calls the control functions.
Next ==
    \/ OnOpen
    \/ OnClose
    \/ Receive
    \/ SocketError
    \/ Return
    \/ Abort

Spec == Init /\ [][Next]_vars

\* The program with a caller of the control functions on another thread.
NextControl ==
    \/ OnOpen
    \/ OnClose
    \/ ReceiveRacing
    \/ SocketError
    \/ Return
    \/ Abort
    \/ StartBoard
    \/ StopBoard
    \/ ResetBoard
    \/ Redirected
    \/ Answered
    \/ ControlReturn

SpecControl == Init /\ [][NextControl]_vars

----------------------------------------------------------------------------
(* What the claims speak of. *)

\* on_message has run on a frame and has not returned to the loop yet.
Handled == loop # "waiting" /\ last = "on_message" /\ Has(frame)

IsState(f) == Has(f.type) /\ Val(f.type) = "state"

\* The outcome of handling frame f on its own, in a fresh process.
Alone(f) == on_message(MessageClassInit, f)

\* What is seen of handling f on its own: on_error's line follows on_message's.
Seen(f) ==
    LET r == Alone(f) IN
    [printed |-> r.printed \o
                 (IF Has(r.raised) THEN on_error(r.raised).printed ELSE <<>>),
     raised |-> r.raised,
     msg |-> r.msg]

\* What is seen of the handler that ran last.
Outcome == [printed |-> printed, raised |-> raised, msg |-> msg]

Values(members) == {m[2] : m \in members}

NameOf(members, value) == (CHOOSE m \in members : m[2] = value)[1]

\* The line is what on_error prints, not a record of on_message.
IsErrorLine(line) == line[1] = "error:"

NoRecord == \A i \in 1..Len(printed) : IsErrorLine(printed[i])

DecodeError == Has(raised) /\ raised[1] \in {"KeyError", "ValueError"}

UnknownStatus(d) ==
    Has(d.status) /\ Val(d.status) \notin Values(StatusTypeMembers)

UnknownEvent(d) ==
    Has(d.event) /\ Val(d.event) \notin Values(EventTypeMembers)

UnknownBed(t) ==
    /\ Has(t.segment)
    /\ Has(Val(t.segment).bed)
    /\ Val(Val(t.segment).bed) \notin Values(SegmentBedMembers)

MissingInEntry(t) ==
    \/ ~Has(t.segment)
    \/ \E k \in {"bed", "multiplier", "number", "name"} :
          ~Has(Val(t.segment)[k])

MissingRequired(f) ==
    \/ ~Has(f.data)
    \/ \E k \in {"connected", "running", "status", "event", "numThrows"} :
          ~Has(Val(f.data)[k])
    \/ /\ Has(Val(f.data).throws)
       /\ \E i \in 1..Len(Val(Val(f.data).throws)) :
             MissingInEntry(Val(Val(f.data).throws)[i])

\* A state frame whose only possible lack is its throws field.
WellFormed(f) ==
    /\ IsState(f)
    /\ ~MissingRequired(f)
    /\ ~UnknownStatus(Val(f.data))
    /\ ~UnknownEvent(Val(f.data))
    /\ Has(Val(f.data).throws) =>
          \A i \in 1..Len(Val(Val(f.data).throws)) :
             ~UnknownBed(Val(Val(f.data).throws)[i])

ThrowDetected(f) == Val(Val(f.data).event) = "Throw detected"

\* The frame's throws list, empty when the field is absent.
ThrowsIn(f) ==
    IF Has(Val(f.data).throws) THEN Val(Val(f.data).throws) ELSE <<>>

----------------------------------------------------------------------------
(* The claims. *)

\* C1: a frame whose type field is not "state" produces no Message and no
\* output and raises nothing, whatever its data and whatever came before.
C1_OtherTypeIgnored ==
    (Handled /\ Has(Val(frame).type) /\ Val(Val(frame).type) # "state")
        => /\ msg = None
           /\ printed = <<>>
           /\ raised = None
           /\ loop = "callback"

C1_Witness ==
    /\ Handled
    /\ Val(frame).type = Some("ping")
    /\ Has(Val(frame).data)
    /\ UnknownStatus(Val(Val(frame).data))
    /\ hadThrows
    /\ hadError
    /\ printed = <<>>

\* C2: a state frame with a status, an event or the bed of any throw entry
\* outside its enumeration ends in a decode error, with no Message and no
\* record printed.
C2_UnknownEnumFails ==
    (/\ Handled
     /\ IsState(Val(frame))
     /\ Has(Val(frame).data)
     /\ \/ UnknownStatus(Val(Val(frame).data))
        \/ UnknownEvent(Val(Val(frame).data))
        \/ \E i \in 1..Len(ThrowsIn(Val(frame))) :
              UnknownBed(ThrowsIn(Val(frame))[i]))
        => /\ DecodeError
           /\ msg = None
           /\ NoRecord

C2_Witness ==
    /\ Handled
    /\ IsState(Val(frame))
    /\ ~MissingRequired(Val(frame))
    /\ ~UnknownStatus(Val(Val(frame).data))
    /\ Val(Val(Val(frame).data).event) = "Started"
    /\ Len(ThrowsIn(Val(frame))) = MaxThrows
    /\ UnknownBed(ThrowsIn(Val(frame))[MaxThrows])
    /\ \A i \in 1..(MaxThrows - 1) : ~UnknownBed(ThrowsIn(Val(frame))[i])
    /\ raised = ValueError("SegmentBed", "Bull")
    /\ printed = << <<"error:", "ValueError", "SegmentBed", "Bull">> >>

\* C3: a decoded Throw detected frame with a non-empty throws list prints
\* event, status, numThrows and the name and multiplier * number of the last
\* entry of throws.
C3_LastThrowScored ==
    (/\ Handled
     /\ WellFormed(Val(frame))
     /\ ThrowDetected(Val(frame))
     /\ ThrowsIn(Val(frame)) # <<>>)
        => LET d == Val(Val(frame).data)
               s == Val(ThrowsIn(Val(frame))[Len(ThrowsIn(Val(frame)))].segment)
           IN /\ raised = None
              /\ Has(msg)
              /\ printed = << <<"EventType.THROW_DETECTED",
                                NameOf(StatusTypeMembers, Val(d.status)),
                                Val(d.numThrows),
                                Val(s.name),
                                Val(s.multiplier) * Val(s.number)>> >>

C3_Witness ==
    /\ Handled
    /\ WellFormed(Val(frame))
    /\ ThrowDetected(Val(frame))
    /\ Len(ThrowsIn(Val(frame))) = MaxThrows
    /\ ThrowsIn(Val(frame))[1] = [segment |-> Some(MISS)]
    /\ printed = << <<"EventType.THROW_DETECTED", "StatusType.THROW", 1,
                      "T20", 60>> >>

\* C4: a decoded frame whose event is not Throw detected prints event and
\* status only and raises nothing, with throws absent, empty or non-empty.
C4_OtherEventPlain ==
    (/\ Handled
     /\ WellFormed(Val(frame))
     /\ ~ThrowDetected(Val(frame)))
        => LET d == Val(Val(frame).data) IN
           /\ raised = None
           /\ Has(msg)
           /\ printed = << <<NameOf(EventTypeMembers, Val(d.event)),
                             NameOf(StatusTypeMembers, Val(d.status))>> >>

C4_Witness ==
    /\ Handled
    /\ WellFormed(Val(frame))
    /\ ~Has(Val(Val(frame).data).throws)
    /\ ~Has(Val(msg).throws)
    /\ printed = << <<"EventType.STARTED", "StatusType.THROW">> >>

\* C5: a well-formed state frame without throws is decoded, and handling it
\* prints and raises what handling the same frame with "throws": [] does.
C5_AbsentLikeEmpty ==
    (/\ Handled
     /\ WellFormed(Val(frame))
     /\ ~Has(Val(Val(frame).data).throws))
        => LET withEmpty == [Val(frame) EXCEPT !.data =
                   Some([Val(Val(frame).data) EXCEPT !.throws = Some(<<>>)])]
               seen == Seen(withEmpty)
           IN /\ Has(msg)
              /\ printed = seen.printed
              /\ raised = seen.raised

\* C6: a decoded Throw detected frame whose throws is absent or empty ends
\* in an exception and prints no record.
C6_EmptyThrowsFails ==
    (/\ Handled
     /\ WellFormed(Val(frame))
     /\ ThrowDetected(Val(frame))
     /\ ThrowsIn(Val(frame)) = <<>>)
        => /\ Has(raised)
           /\ raised[1] \in {"AttributeError", "IndexError"}
           /\ NoRecord
           /\ Len(printed) = 1

C6_Witness ==
    /\ Handled
    /\ WellFormed(Val(frame))
    /\ ThrowDetected(Val(frame))
    /\ Val(Val(frame).data).throws = Some(<<>>)
    /\ Val(Val(Val(frame).data).numThrows) = 1
    /\ raised = IndexError
    /\ hadThrows

\* C7: a frame that ends in an exception leaves the loop running and the
\* socket open; after a frame that failed to decode the next frame can be
\* delivered, and every later frame is handled as it would be on its own.
C7_ErrorIsLocal ==
    /\ (Handled /\ Has(raised)) => (loop = "callback" /\ conn = "open")
    /\ (Handled /\ hadError) =>
          Outcome = Seen(Val(frame))
    /\ (hadError /\ loop = "waiting" /\ conn = "open") =>
          ENABLED Receive

C7_Witness ==
    /\ Handled
    /\ hadError
    /\ ~hadThrows
    /\ raised = None
    /\ printed = << <<"EventType.THROW_DETECTED", "StatusType.THROW", 1,
                      "T20", 60>> >>

\* C8: what handling a frame prints, raises and constructs is what handling
\* it on its own does, and class Message is as the class statement left it.
C8_NoCarriedState ==
    /\ MessageClass = MessageClassInit
    /\ Handled =>
          Outcome = Seen(Val(frame))

C8_Witness ==
    /\ Handled
    /\ hadThrows
    /\ WellFormed(Val(frame))
    /\ ThrowDetected(Val(frame))
    /\ ~Has(Val(Val(frame).data).throws)
    /\ Val(Val(Val(frame).data).numThrows) = MaxThrows
    /\ raised = AttributeError("Message", "throws")

\* C9: a state frame that lacks data, one of connected, running, status,
\* event, numThrows, or segment, bed, multiplier, number, name of a throw
\* entry ends in a decode error, with no Message and no record; a frame that
\* lacks throws alone is decoded.
C9_MissingFieldFails ==
    /\ (Handled /\ IsState(Val(frame)) /\ MissingRequired(Val(frame)))
          => (DecodeError /\ msg = None /\ NoRecord /\ Len(printed) = 1)
    /\ (Handled /\ WellFormed(Val(frame))) => Has(msg)

C9_Witness ==
    /\ Handled
    /\ IsState(Val(frame))
    /\ Has(Val(frame).data)
    /\ Val(Val(frame).data).event = Some("Started")
    /\ Len(ThrowsIn(Val(frame))) = MaxThrows
    /\ ThrowsIn(Val(frame))[1] \in GoodEntries
    /\ raised = KeyError("name")

\* C10: a call of start_board, stop_board or reset_board issues exactly one
\* request (PUT /api/start, PUT /api/stop, POST /api/reset), whatever the
\* transport answers and whatever frames are handled meanwhile, and no step
\* of the call changes the state of the loop and of the handling of frames.
C10_OneRequest ==
    /\ [](call # "" =>
            /\ sent = << <<IF call = "reset_board" THEN "POST" ELSE "PUT",
                           API_URL, API_PORT,
                           CASE call = "start_board" -> "/api/start"
                             [] call = "stop_board" -> "/api/stop"
                             [] call = "reset_board" -> "/api/reset">> >>
            /\ callRaised = None \/ callRaised[1] = "ConnectionError")
    /\ [][callVars' # callVars => UNCHANGED loopVars]_vars

====
